---------------------------- MODULE Spec2Model ----------------------------
(***************************************************************************)
(* A model of the MySQL tools of langchain_streaming_mcp:                  *)
(*   mysql_tool.py  - MySQLQueryInput.validate_query, MySQLTool            *)
(*                    (_get_connection_pool, _close_connection_pool,       *)
(*                    _execute_query, _format_result, _arun,               *)
(*                    astream_events), MySQLSchemaTool._arun               *)
(*   mcp_server.py  - MySQLMCPServer handle_call_tool and close            *)
(*                                                                         *)
(* Text is a sequence of one-character strings, so that lower(), upper(),  *)
(* strip(), split() and the substring test are computed, not assumed.      *)
(* Coroutines are processes: one action is the code between two awaits.    *)
(***************************************************************************)
EXTENDS Integers, Sequences, FiniteSets, TLC

\* ------------------------------------------------------------------ text

UpperLetters ==
  <<"A","B","C","D","E","F","G","H","I","J","K","L","M",
    "N","O","P","Q","R","S","T","U","V","W","X","Y","Z">>

LowerLetters ==
  <<"a","b","c","d","e","f","g","h","i","j","k","l","m",
    "n","o","p","q","r","s","t","u","v","w","x","y","z">>

\* str.isspace() on the characters the model uses: blank and tab.
IsSpace(c) == c \in {" ", "\t"}

IndexIn(seq, c) == CHOOSE i \in 1..Len(seq) : seq[i] = c

\* The lower-case letter of each upper-case letter, and the converse.
ToLower ==
  [c \in {UpperLetters[i] : i \in 1..Len(UpperLetters)} |->
     LowerLetters[IndexIn(UpperLetters, c)]]

ToUpper ==
  [c \in {LowerLetters[i] : i \in 1..Len(LowerLetters)} |->
     UpperLetters[IndexIn(LowerLetters, c)]]

LowerChar(c) == IF c \in DOMAIN ToLower THEN ToLower[c] ELSE c

UpperChar(c) == IF c \in DOMAIN ToUpper THEN ToUpper[c] ELSE c

\* str.lower() and str.upper()
Lower(s) == [i \in 1..Len(s) |-> LowerChar(s[i])]

Upper(s) == [i \in 1..Len(s) |-> UpperChar(s[i])]

\* str.strip(): drop the leading and the trailing whitespace.
Strip(s) ==
  LET keep == {i \in 1..Len(s) : ~IsSpace(s[i])}
  IN  IF keep = {} THEN <<>>
      ELSE LET lo == CHOOSE i \in keep : \A j \in keep : i <= j
               hi == CHOOSE i \in keep : \A j \in keep : j <= i
           IN  SubSeq(s, lo, hi)

\* `pattern in s`
Contains(s, p) ==
  \E i \in 1..(Len(s) - Len(p) + 1) : SubSeq(s, i, i + Len(p) - 1) = p

\* str.split(): the maximal runs of non-whitespace characters, in order.
RECURSIVE Split(_)
Split(s) ==
  IF s = <<>> THEN <<>>
  ELSE IF IsSpace(Head(s)) THEN Split(Tail(s))
  ELSE LET stops == {i \in 1..Len(s) : IsSpace(s[i])}
           end == IF stops = {} THEN Len(s) + 1
                  ELSE CHOOSE i \in stops : \A j \in stops : i <= j
       IN  <<SubSeq(s, 1, end - 1)>> \o Split(SubSeq(s, end, Len(s)))

\* ------------------------------------------------- MySQLQueryInput

\* The denylist of validate_query, in the order the code tests it.
dangerous_patterns ==
  << <<"d","r","o","p"," ","d","a","t","a","b","a","s","e">>,
     <<"d","r","o","p"," ","s","c","h","e","m","a">>,
     <<"d","r","o","p"," ","t","a","b","l","e">>,
     <<"t","r","u","n","c","a","t","e"," ","t","a","b","l","e">>,
     <<"d","e","l","e","t","e"," ","f","r","o","m">>,
     <<"f","o","r","m","a","t"," ","c",":">>,
     <<"r","m"," ","-","r","f">>,
     <<"s","h","u","t","d","o","w","n">>,
     <<"s","y","s","t","e","m">>,
     <<"e","x","e","c","(">>,
     <<"x","p","_","c","m","d","s","h","e","l","l">> >>

\* The first pattern of the list that occurs in the text (0: none), as the
\* for loop finds it.
FirstPattern(query_lower) ==
  LET hits == {k \in 1..Len(dangerous_patterns) :
                 Contains(query_lower, dangerous_patterns[k])}
  IN  IF hits = {} THEN 0 ELSE CHOOSE k \in hits : \A j \in hits : k <= j

\* validate_query: the value returned, or the ValueError raised.
validate_query_no_lower(v) ==
  IF v = <<>> \/ Strip(v) = <<>>
  THEN [ok |-> FALSE, error |-> "Query cannot be empty", pattern |-> <<>>]
  ELSE LET query_lower == Strip(v)
           k == FirstPattern(query_lower)
       IN  IF k # 0
           THEN [ok |-> FALSE,
                 error |-> "Query contains potentially dangerous pattern: ",
                 pattern |-> dangerous_patterns[k]]
           ELSE [ok |-> TRUE, value |-> v]

validate_query(v) ==
  IF v = <<>> \/ Strip(v) = <<>>
  THEN [ok |-> FALSE, error |-> "Query cannot be empty", pattern |-> <<>>]
  ELSE LET query_lower == Strip(Lower(v))
           k == FirstPattern(query_lower)
       IN  IF k # 0
           THEN [ok |-> FALSE,
                 error |-> "Query contains potentially dangerous pattern: ",
                 pattern |-> dangerous_patterns[k]]
           ELSE [ok |-> TRUE, value |-> v]

\* ------------------------------------------------ texts to validate

\* Most words a text is built from (a bound of the model).
MaxWords == 2

\* The words of the denylist's patterns, and one harmless word.
ValidateWords ==
  { <<"d","r","o","p">>,
    <<"d","a","t","a","b","a","s","e">>,
    <<"s","c","h","e","m","a">>,
    <<"t","a","b","l","e">>,
    <<"t","r","u","n","c","a","t","e">>,
    <<"d","e","l","e","t","e">>,
    <<"f","r","o","m">>,
    <<"f","o","r","m","a","t">>,
    <<"c",":">>,
    <<"r","m">>,
    <<"-","r","f">>,
    <<"s","h","u","t","d","o","w","n">>,
    <<"s","y","s","t","e","m">>,
    <<"e","x","e","c","(">>,
    <<"x","p","_","c","m","d","s","h","e","l","l">>,
    <<"s","e","l","e","c","t">> }

Separators == { <<>>, <<" ">>, <<" "," ">> }

\* Leading and trailing whitespace put around a text.
Pads == { <<<<>>, <<>>>>, <<<<"\t"," ">>, <<" ">>>> }

RECURSIVE Bodies(_)
Bodies(n) ==
  IF n <= 1 THEN ValidateWords
  ELSE Bodies(n - 1) \cup
       { b \o sep \o w : b \in Bodies(n - 1), sep \in Separators,
                         w \in ValidateWords }

\* Letter cases a text is written in: as is, upper case, alternating.
AsIs(s) == s

Alternating(s) ==
  [i \in 1..Len(s) |-> IF i % 2 = 1 THEN UpperChar(s[i]) ELSE s[i]]

BlankTexts == { <<>>, <<" ">>, <<"\t"," ">> }

\* A body written in one of the letter cases, with a pad around it.
LetterCases == {"as is", "upper", "alternating"}

PaddedText(b, pad, case) ==
  pad[1] \o (IF case = "upper" THEN Upper(b)
             ELSE IF case = "alternating" THEN Alternating(b)
             ELSE AsIs(b)) \o pad[2]

\* ------------------------------------------------------ result records

\* None, for an optional text argument (database, table). The code only
\* tests these for truth, and None and "" are both false: both are <<>>.
None == <<>>

Truthy(text) == text # <<>>

\* dict.get(key, default)
Get(d, key, default) == IF key \in DOMAIN d THEN d[key] ELSE default

Min(a, b) == IF a <= b THEN a ELSE b

kSELECT == <<"S","E","L","E","C","T">>

kINSERT == <<"I","N","S","E","R","T">>

kUPDATE == <<"U","P","D","A","T","E">>

kDELETE == <<"D","E","L","E","T","E">>

kCREATE == <<"C","R","E","A","T","E">>

kALTER == <<"A","L","T","E","R">>

kDROP == <<"D","R","O","P">>

\* Exceptions are records of the class name and str(e).
Exc(type, message) ==
  [type |-> type, message |-> message, origin |-> "", caught |-> ""]

\* cursor.fetchmany(size) on a fresh result set, for size >= 1.
fetchmany_all(rows, size) == rows

fetchmany(rows, size) == SubSeq(rows, 1, Min(size, Len(rows)))

\* cursor.description of a statement with a result set: one 7-tuple per
\* column (name, type, display_size, internal_size, precision, scale,
\* null_ok); None (the empty tuple here) for a statement without one.
Description == << <<"id", "int", 11, 11, 0, 0, FALSE>> >>

\* The failure-shaped record of the except clause.
FailureRecord_with_rows(query, e) ==
  [query |-> query, success |-> FALSE, error |-> e.message,
   error_type |-> e.type, timestamp |-> "now", rows |-> <<>>,
   row_count |-> 0]

FailureRecord_no_type(query, e) ==
  [query |-> query, success |-> FALSE, error |-> e.message,
   timestamp |-> "now"]

FailureRecord(query, e) ==
  [query |-> query, success |-> FALSE, error |-> e.message,
   error_type |-> e.type, timestamp |-> "now"]

\* `query.strip().upper().split()[0]`; <<>> stands for the IndexError.
query_type_no_upper(query) ==
  LET words == Split(Strip(query))
  IN  IF words = <<>> THEN <<>> ELSE words[1]

query_type_of(query) ==
  LET words == Split(Upper(Strip(query)))
  IN  IF words = <<>> THEN <<>> ELSE words[1]

\* Lines 185-267 of _execute_query after `cursor.execute(query)` was
\* awaited: o is what the server and the driver answered.
\*   o.execute      "ok", or the exception cursor.execute raised
\*   o.rows         the statement's result set
\*   o.fetch        "ok", or "error": fetchmany / fetchall raised
\*   o.description  cursor.description
\*   o.type_name    "ok", or "error": desc[1] has no __name__
\*   o.rowcount, o.lastrowid
ShapeResult(query, limit, fetch_metadata, o) ==
  IF o.execute # "ok"
  THEN FailureRecord(query, Exc("ProgrammingError", "SQL error"))
  ELSE IF query_type_of(query) = <<>>
  THEN FailureRecord(query, Exc("IndexError", "list index out of range"))
  ELSE
    LET query_type == query_type_of(query)
        result == [query |-> query, query_type |-> query_type,
                   success |-> TRUE, timestamp |-> "now"]
    IN  IF query_type = kSELECT
        THEN IF o.fetch # "ok"
             THEN FailureRecord(query, Exc("OperationalError", "fetch error"))
             ELSE LET rows == fetchmany(o.rows, limit)
                      updated ==
                        [rows |-> rows, row_count |-> Len(rows),
                         limited |-> IF rows # <<>> THEN Len(rows) = limit
                                     ELSE FALSE] @@ result
                  IN  IF fetch_metadata /\ o.description # <<>>
                      THEN IF o.type_name # "ok"
                           THEN FailureRecord(query,
                                  Exc("AttributeError", "no __name__"))
                           ELSE [columns |->
                                   [i \in 1..Len(o.description) |->
                                      [name |-> o.description[i][1],
                                       type |-> o.description[i][2],
                                       display_size |-> o.description[i][3],
                                       internal_size |-> o.description[i][4],
                                       precision |-> o.description[i][5],
                                       scale |-> o.description[i][6],
                                       null_ok |-> o.description[i][7]]]]
                                @@ updated
                      ELSE updated
        ELSE IF query_type \in {kINSERT, kUPDATE, kDELETE}
        THEN [affected_rows |-> o.rowcount,
              last_insert_id |-> o.lastrowid] @@ result
        ELSE IF query_type \in {kCREATE, kALTER, kDROP}
        THEN [ddl_executed |-> TRUE,
              message |-> "DDL statement executed successfully"] @@ result
        ELSE IF o.fetch # "ok"
             THEN FailureRecord(query, Exc("OperationalError", "fetch error"))
             ELSE LET rows == o.rows
                      updated == [rows |-> rows, row_count |-> Len(rows)]
                                 @@ result
                  IN  IF fetch_metadata /\ o.description # <<>>
                      THEN [columns |->
                              [i \in 1..Len(o.description) |->
                                 o.description[i][1]]] @@ updated
                      ELSE updated

\* ----------------------------------------------------- _format_result

\* Rows shown by _format_result for SELECT and for other statements.
SelectRowsShown == 5

OtherRowsShown == 10

\* A formatted text is a record of the f-string that made it (fmt) and
\* of the values put in it; a multi-line report lists its lines.
_format_result(result) ==
  IF ~Get(result, "success", FALSE)
  THEN [fmt |-> "MySQL Error: {error} Query: {query}",
        error |-> Get(result, "error", "Unknown error"),
        query |-> Get(result, "query", <<"N","/","A">>)]
  ELSE
    LET query_type == Get(result, "query_type", <<"U","N","K","N","O","W","N">>)
        head == [fmt |-> "MySQL {query_type} Query Executed Successfully",
                 query_type |-> query_type,
                 query |-> Get(result, "query", <<"N","/","A">>)]
    IN  IF query_type = kSELECT
        THEN LET rows == Get(result, "rows", <<>>)
                 columns == Get(result, "columns", <<>>)
             IN  [row_count |-> Get(result, "row_count", 0),
                  limited |-> Get(result, "limited", FALSE),
                  columns |-> [i \in 1..Len(columns) |-> columns[i].name],
                  data |-> SubSeq(rows, 1, Min(SelectRowsShown, Len(rows))),
                  more_rows |-> IF Len(rows) > SelectRowsShown
                                THEN Len(rows) - SelectRowsShown ELSE 0]
                 @@ head
        ELSE IF query_type \in {kINSERT, kUPDATE, kDELETE}
        THEN LET last_id == Get(result, "last_insert_id", 0)
             IN  [affected_rows |-> Get(result, "affected_rows", 0),
                  last_insert_id |-> last_id] @@ head
        ELSE IF Get(result, "ddl_executed", FALSE)
        THEN [message |-> Get(result, "message", "DDL executed successfully")]
             @@ head
        ELSE LET rows == Get(result, "rows", <<>>)
             IN  [row_count |-> Len(rows),
                  results |-> SubSeq(rows, 1, Min(OtherRowsShown, Len(rows)))]
                 @@ head

\* The except clause of MySQLTool._arun.
ToolErrorText(e, query) ==
  [fmt |-> "MySQL Tool Error: {error} Query: {query}",
   error |-> e.message, query |-> query]

\* ------------------------------------------------------ astream_events

MetadataEvent(result) ==
  [event |-> "metadata",
   query |-> Get(result, "query", None),
   query_type |-> Get(result, "query_type", None),
   columns |-> Get(result, "columns", <<>>),
   success |-> Get(result, "success", FALSE),
   error |-> Get(result, "error", "None")]

RowEvent_one_based(i, row) == [event |-> "row", index |-> i + 1, row |-> row]

RowEvent(i, row) == [event |-> "row", index |-> i, row |-> row]

SummaryEvent(result) ==
  [event |-> "summary",
   row_count |-> Get(result, "row_count", 0),
   limited |-> Get(result, "limited", FALSE),
   affected_rows |-> Get(result, "affected_rows", -1),
   last_insert_id |-> Get(result, "last_insert_id", -1),
   ddl_executed |-> Get(result, "ddl_executed", FALSE),
   message |-> Get(result, "message", "None")]

ErrorEvent_no_type(e) ==
  [event |-> "error", error |-> e.message, error_type |-> "Exception"]

ErrorEvent(e) == [event |-> "error", error |-> e.message, error_type |-> e.type]

StreamsRows_any_success(result) == Get(result, "success", FALSE)

\* `result.get("success") and result.get("query_type") == "SELECT"`
StreamsRows(result) ==
  Get(result, "success", FALSE) /\ Get(result, "query_type", None) = kSELECT

\* --------------------------------------------------------------- state

\* The coroutines that run calls, and the two MySQLTool instances of
\* MySQLMCPServer: mysql_tool, and the one MySQLSchemaTool builds.
Tasks == {"t1", "t2"}

Instances == {"mysql_tool", "schema_tool"}

\* Pools ever created in one run (a bound of the model).
MaxPools == 3

\* create_pool(minsize=1, maxsize=5)
minsize == 1

maxsize == 5

\* MySQLQueryInput.limit's and _execute_query's default.
DefaultLimit == 100

VARIABLES
  connection_pool,  \* [Instances -> 0..MaxPools]: _connection_pool (0: None)
  pools,            \* every pool created: [owner, state, conns]
  task,             \* [Tasks -> frame]: the call each coroutine runs
  closer,           \* MySQLMCPServer.close: [pc, pool]
  vInput,           \* the text given to validate_query
  vResult           \* what validate_query returned or raised

vars == <<connection_pool, pools, task, closer, vInput, vResult>>

NoResult == [absent |-> TRUE]

\* No statement was executed yet: what `answer` holds until then.
NoAnswer ==
  [execute |-> "", rows |-> <<>>, fetch |-> "", description |-> <<>>,
   type_name |-> "", rowcount |-> 0, lastrowid |-> 0]

NoExc == [type |-> "", message |-> "", origin |-> "", caught |-> ""]

IdleFrame ==
  [pc |-> "idle", entry |-> "", name |-> "", tool |-> "",
   query |-> <<>>, database |-> None, limit |-> 0, fetch_metadata |-> FALSE,
   schema_database |-> None, schema_table |-> None, mode |-> "",
   pool |-> 0, conn |-> 0, answer |-> NoAnswer, result |-> NoResult,
   raised |-> NoExc,
   events |-> <<>>, next_row |-> 0, stops |-> 0, reply |-> <<>>]

TextContent(text) == [type |-> "text", text |-> text]

\* The text of handle_call_tool's except clause.
DispatchErrorText(name, message) ==
  [fmt |-> "Error executing {name}: {error}", tool |-> name,
   error |-> message]

\* ----------------------------------------------------- MySQLSchemaTool

SHOW_DATABASES == <<"S","H","O","W"," ","D","A","T","A","B","A","S","E","S">>

SHOW_TABLES_FROM == <<"S","H","O","W"," ","T","A","B","L","E","S"," ","F","R","O","M"," ">>

DESCRIBE == <<"D","E","S","C","R","I","B","E"," ">>

SchemaMode_database_first(database, table) ==
  IF ~Truthy(database) /\ ~Truthy(table) THEN "databases"
  ELSE IF Truthy(database) THEN "tables"
  ELSE "describe"

\* The mode MySQLSchemaTool._arun takes, and the statement it issues.
SchemaMode(database, table) ==
  IF ~Truthy(database) /\ ~Truthy(table) THEN "databases"
  ELSE IF Truthy(database) /\ ~Truthy(table) THEN "tables"
  ELSE "describe"

SchemaQuery(database, table) ==
  IF SchemaMode(database, table) = "databases" THEN SHOW_DATABASES
  ELSE IF SchemaMode(database, table) = "tables"
  THEN SHOW_TABLES_FROM \o database
  ELSE LET db_prefix == IF Truthy(database) THEN database \o <<".">> ELSE <<>>
       IN  DESCRIBE \o db_prefix \o table

\* The database MySQLSchemaTool._arun hands to _execute_query.
SchemaUse(database, table) ==
  IF SchemaMode(database, table) = "describe" THEN database ELSE None

\* The text MySQLSchemaTool._arun returns for the record of its statement;
\* [raised |-> e] when reshaping the rows raises inside its try block.
SchemaText(mode, database, table, result) ==
  LET rows == Get(result, "rows", <<>>)
      ok == Get(result, "success", FALSE)
      err == Get(result, "error", "None")
  IN  IF mode = "databases"
      THEN IF ok
           THEN IF \E i \in 1..Len(rows) : Len(rows[i]) = 0
                THEN [raised |-> Exc("IndexError", "list index out of range")]
                ELSE [fmt |-> "Available Databases:",
                      items |-> [i \in 1..Len(rows) |-> rows[i][1]]]
           ELSE [fmt |-> "Error listing databases: {error}", error |-> err]
      ELSE IF mode = "tables"
      THEN IF ok
           THEN IF \E i \in 1..Len(rows) : Len(rows[i]) = 0
                THEN [raised |-> Exc("IndexError", "list index out of range")]
                ELSE [fmt |-> "Tables in database '{database}':",
                      database |-> database,
                      items |-> [i \in 1..Len(rows) |-> rows[i][1]]]
           ELSE [fmt |-> "Error listing tables: {error}", error |-> err]
      ELSE IF ok
           THEN IF rows # <<>>
                THEN IF \E i \in 1..Len(rows) : Len(rows[i]) # 6
                     THEN [raised |-> Exc("ValueError", "unpack")]
                     ELSE [fmt |-> "Schema for table '{table}':",
                           table |-> table,
                           columns |->
                             [i \in 1..Len(rows) |->
                                [field |-> rows[i][1], type |-> rows[i][2],
                                 key |-> rows[i][4],
                                 not_null |-> rows[i][3] = "NO",
                                 default |-> rows[i][5],
                                 extra |-> rows[i][6]]]]
                ELSE [fmt |-> "Table '{table}' has no columns or doesn't exist",
                      table |-> table]
           ELSE [fmt |-> "Error describing table: {error}", error |-> err]

SchemaToolErrorText(e) ==
  [fmt |-> "MySQL Schema Tool Error: {error}", error |-> e.message]

\* ---------------------------------------------------------- the server

\* Rows the server holds for a statement with a result set (a bound).
MaxRows == 3

app_db == <<"a","p","p">>

ServerDatabases == {app_db}

\* The statement's first keyword, as the server reads it.
ServerVerb(query) ==
  LET words == Split(Lower(query))
  IN  IF words = <<>> THEN <<>> ELSE words[1]

HasResultSet(query) ==
  ServerVerb(query) \in {<<"s","e","l","e","c","t">>, <<"s","h","o","w">>, <<"d","e","s","c","r","i","b","e">>}

\* One row of DESCRIBE: Field, Type, Null, Key, Default, Extra.
DescribeRow(i) ==
  IF i = 1 THEN <<"id", "int", "NO", "PRI", "None", "auto_increment">>
  ELSE <<"name", "varchar(32)", "YES", "", "None", "">>

ResultSet(query, m) ==
  IF ServerVerb(query) = <<"d","e","s","c","r","i","b","e">>
  THEN [i \in 1..m |-> DescribeRow(i)]
  ELSE [i \in 1..m |-> <<i>>]

Answer(execute, rows, fetch, description, type_name, rowcount, lastrowid) ==
  [execute |-> execute, rows |-> rows, fetch |-> fetch,
   description |-> description, type_name |-> type_name,
   rowcount |-> rowcount, lastrowid |-> lastrowid]

\* What the server and the driver may answer to cursor.execute(query) and
\* to the fetch that follows it.
Outcomes(query) ==
  {Answer("error", <<>>, "ok", <<>>, "ok", 0, 0)} \cup
  IF ServerVerb(query) = <<>> THEN {}
  ELSE IF HasResultSet(query)
  THEN {Answer("ok", ResultSet(query, m), "ok", Description, "ok", m, 0) :
          m \in 0..MaxRows} \cup
       {Answer("ok", <<>>, "error", Description, "ok", 0, 0),
        Answer("ok", ResultSet(query, 1), "ok", Description, "error", 1, 0)}
  ELSE {Answer("ok", <<>>, "ok", <<>>, "ok", m, Min(m, 1)) : m \in 0..1}

\* ------------------------------------------------- _get_connection_pool

Frame(t) == task[t]

SetFrame(t, f) == task' = [task EXCEPT ![t] = f]

NewPool(owner) ==
  [owner |-> owner, state |-> "open",
   conns |-> [c \in 1..minsize |-> [busy |-> FALSE, database |-> None]]]

\* Pools of an instance that are open: created and not closed.
LivePools(x) ==
  {p \in 1..Len(pools) : pools[p].owner = x /\ pools[p].state = "open"}

Dispatched_no_except(name, outcome) ==
  IF "raised" \in DOMAIN outcome THEN <<>>
  ELSE <<TextContent(outcome.returned)>>

\* handle_call_tool's own try block around an entry point that returned
\* `text` or raised (lines 104-142).
Dispatched(name, outcome) ==
  IF "raised" \in DOMAIN outcome
  THEN <<TextContent(DispatchErrorText(name, outcome.raised.message))>>
  ELSE <<TextContent(outcome.returned)>>

\* How the entry point a call came in by goes on when _execute_query
\* returns `result` (lines 346, 372-380, 462-508, 118, 131).
Returned(f, result) ==
  IF f.entry = "astream_events"
  THEN [f EXCEPT !.pc = "streaming", !.result = result,
                 !.events = <<MetadataEvent(result)>>, !.next_row = 0]
  ELSE IF f.name = "mysql_query"
  THEN [f EXCEPT !.pc = "done", !.result = result,
                 !.reply = Dispatched(f.name,
                             [returned |-> _format_result(result)])]
  ELSE LET text == SchemaText(f.mode, f.schema_database, f.schema_table,
                              result)
       IN  [f EXCEPT !.pc = "done", !.result = result,
                     !.reply = Dispatched(f.name,
                        [returned |-> IF "raised" \in DOMAIN text
                                      THEN SchemaToolErrorText(text.raised)
                                      ELSE text])]

\* Where an exception that left _execute_query is caught: each entry point
\* has an except clause of its own (lines 348-350, 395-396, 510-511).
CaughtBy_nobody(f) == "handle_call_tool"

CaughtBy(f) ==
  IF f.entry = "astream_events" THEN "astream_events"
  ELSE IF f.name = "mysql_query" THEN "MySQLTool._arun"
  ELSE "MySQLSchemaTool._arun"

\* How the call goes on when _execute_query raises e.
Raised(f, e, origin) ==
  LET by == CaughtBy(f)
      g == [f EXCEPT !.raised = [e EXCEPT !.origin = origin, !.caught = by]]
  IN  IF by = "astream_events"
      THEN [g EXCEPT !.pc = "stream_last", !.events = <<ErrorEvent(e)>>]
      ELSE IF by = "MySQLTool._arun"
      THEN [g EXCEPT !.pc = "done",
                     !.reply = Dispatched(f.name,
                        [returned |-> ToolErrorText(e, f.query)])]
      ELSE IF by = "MySQLSchemaTool._arun"
      THEN [g EXCEPT !.pc = "done",
                     !.reply = Dispatched(f.name,
                        [returned |-> SchemaToolErrorText(e)])]
      ELSE [g EXCEPT !.pc = "done",
                     !.reply = Dispatched(f.name, [raised |-> e])]

\* _execute_query is entered: _get_connection_pool returns the cached pool
\* at once, or awaits create_pool.
Entered(f) ==
  IF connection_pool[f.tool] # 0
  THEN [f EXCEPT !.pc = "acquire", !.pool = connection_pool[f.tool]]
  ELSE [f EXCEPT !.pc = "create_pool"]

\* create_pool returns: the pool is cached and returned.
CreatePoolOk(t) ==
  /\ Frame(t).pc = "create_pool"
  /\ Len(pools) < MaxPools
  /\ pools' = Append(pools, NewPool(Frame(t).tool))
  /\ connection_pool' =
       [connection_pool EXCEPT ![Frame(t).tool] = Len(pools) + 1]
  /\ SetFrame(t, [Frame(t) EXCEPT !.pc = "acquire", !.pool = Len(pools) + 1])
  /\ UNCHANGED <<closer, vInput, vResult>>

\* create_pool raises (unreachable host, bad credentials): logged, re-raised.
CreatePoolFail(t) ==
  /\ Frame(t).pc = "create_pool"
  /\ SetFrame(t, Raised(Frame(t),
                        Exc("OperationalError", "Can't connect"),
                        "create_pool"))
  /\ UNCHANGED <<connection_pool, pools, closer, vInput, vResult>>

\* ------------------------------------------------------- _execute_query

FreeConns(p) == {c \in 1..Len(pools[p].conns) : ~pools[p].conns[c].busy}

SetConn(p, c, conn) == pools' = [pools EXCEPT ![p].conns[c] = conn]

\* `async with pool.acquire() as connection`: a free connection of the
\* pool, or a new one while the pool holds fewer than maxsize.
Acquire(t) ==
  /\ Frame(t).pc = "acquire"
  /\ pools[Frame(t).pool].state = "open"
  /\ LET p == Frame(t).pool
     IN  \/ \E c \in FreeConns(p) :
              /\ SetConn(p, c, [pools[p].conns[c] EXCEPT !.busy = TRUE])
              /\ SetFrame(t, [Frame(t) EXCEPT !.pc = "cursor", !.conn = c])
         \/ /\ FreeConns(p) = {}
            /\ Len(pools[p].conns) < maxsize
            /\ pools' = [pools EXCEPT ![p].conns =
                           Append(@, [busy |-> TRUE, database |-> None])]
            /\ SetFrame(t, [Frame(t) EXCEPT
                              !.pc = "cursor",
                              !.conn = Len(pools[p].conns) + 1])
  /\ UNCHANGED <<connection_pool, closer, vInput, vResult>>

\* pool.acquire() raises: the pool is closing or closed, or a connection
\* it has to make (none is free, or the free one has gone stale) cannot
\* be made. Nothing in _execute_query catches it.
AcquireFail(t) ==
  /\ Frame(t).pc = "acquire"
  /\ IF pools[Frame(t).pool].state # "open"
     THEN SetFrame(t, Raised(Frame(t),
            Exc("RuntimeError",
                "Cannot acquire connection after closing pool"),
            "acquire"))
     ELSE SetFrame(t, Raised(Frame(t),
            Exc("OperationalError", "Can't connect"), "acquire"))
  /\ UNCHANGED <<connection_pool, pools, closer, vInput, vResult>>

\* `async with connection.cursor() as cursor`
Cursor(t) ==
  /\ Frame(t).pc = "cursor"
  /\ SetFrame(t, [Frame(t) EXCEPT
                    !.pc = IF Truthy(Frame(t).database) THEN "use"
                           ELSE "execute"])
  /\ UNCHANGED <<connection_pool, pools, closer, vInput, vResult>>

\* connection.cursor() raises (the connection is gone): the connection
\* goes back to the pool and the exception leaves _execute_query.
CursorFail(t) ==
  /\ Frame(t).pc = "cursor"
  /\ LET p == Frame(t).pool
         c == Frame(t).conn
     IN  SetConn(p, c, [pools[p].conns[c] EXCEPT !.busy = FALSE])
  /\ SetFrame(t, Raised([Frame(t) EXCEPT !.conn = 0],
                        Exc("InterfaceError", "(0, '')"), "cursor"))
  /\ UNCHANGED <<connection_pool, closer, vInput, vResult>>

\* `await cursor.execute(f"USE {database}")`: the connection's database
\* changes, or the server's error is caught into a failure record.
Use(t) ==
  /\ Frame(t).pc = "use"
  /\ LET p == Frame(t).pool
         c == Frame(t).conn
     IN  IF Frame(t).database \in ServerDatabases
         THEN /\ SetConn(p, c, [pools[p].conns[c] EXCEPT
                                  !.database = Frame(t).database])
              /\ SetFrame(t, [Frame(t) EXCEPT !.pc = "execute"])
         ELSE /\ SetFrame(t, [Frame(t) EXCEPT
                    !.pc = "release",
                    !.result = FailureRecord(Frame(t).query,
                       Exc("OperationalError", "Unknown database"))])
              /\ UNCHANGED pools
  /\ UNCHANGED <<connection_pool, closer, vInput, vResult>>

\* `await cursor.execute(query)`, the fetch and the shaping of the record.
Execute(t) ==
  /\ Frame(t).pc = "execute"
  /\ \E o \in Outcomes(Frame(t).query) :
       SetFrame(t, [Frame(t) EXCEPT
                      !.pc = "release",
                      !.answer = o,
                      !.result = ShapeResult(Frame(t).query, Frame(t).limit,
                                             Frame(t).fetch_metadata, o)])
  /\ UNCHANGED <<connection_pool, pools, closer, vInput, vResult>>

Release_keeps_connection(t) ==
  /\ Frame(t).pc = "release"
  /\ SetFrame(t, Returned([Frame(t) EXCEPT !.conn = 0], Frame(t).result))
  /\ UNCHANGED <<connection_pool, pools, closer, vInput, vResult>>

\* The two `async with` blocks are left: the cursor is closed, the
\* connection released, and the record returned to the entry point.
Release(t) ==
  /\ Frame(t).pc = "release"
  /\ LET p == Frame(t).pool
         c == Frame(t).conn
     IN  SetConn(p, c, [pools[p].conns[c] EXCEPT !.busy = FALSE])
  /\ SetFrame(t, Returned([Frame(t) EXCEPT !.conn = 0], Frame(t).result))
  /\ UNCHANGED <<connection_pool, closer, vInput, vResult>>

\* ------------------------------------------------------ astream_events

\* The first step of the generator: it runs into _execute_query.
astream_events(t, input, config, limit, fetch_metadata) ==
  /\ Frame(t).pc = "idle"
  /\ SetFrame(t, Entered([IdleFrame EXCEPT
                            !.entry = "astream_events",
                            !.tool = "mysql_tool",
                            !.query = input, !.database = config,
                            !.limit = limit,
                            !.fetch_metadata = fetch_metadata]))
  /\ UNCHANGED <<connection_pool, pools, closer, vInput, vResult>>

\* The consumer asks for the next event after the metadata event or a row
\* event: one more row, or the summary.
StreamNext(t) ==
  /\ Frame(t).pc = "streaming"
  /\ LET f == Frame(t)
         rows == Get(f.result, "rows", <<>>)
     IN  IF StreamsRows(f.result) /\ f.next_row < Len(rows)
         THEN SetFrame(t, [f EXCEPT
                !.events = Append(@, RowEvent(f.next_row,
                                              rows[f.next_row + 1])),
                !.next_row = @ + 1])
         ELSE SetFrame(t, [f EXCEPT
                !.pc = "stream_last",
                !.events = Append(@, SummaryEvent(f.result))])
  /\ UNCHANGED <<connection_pool, pools, closer, vInput, vResult>>

\* The consumer asks again after the summary (or the error) event: the
\* generator returns.
StreamEnd(t) ==
  /\ Frame(t).pc = "stream_last"
  /\ SetFrame(t, [Frame(t) EXCEPT !.pc = "exhausted", !.stops = 1])
  /\ UNCHANGED <<connection_pool, pools, closer, vInput, vResult>>

\* Times the model lets a consumer ask an exhausted stream again (a bound).
MaxStops == 2

StreamAgain_restarts(t) ==
  /\ Frame(t).pc = "exhausted"
  /\ Frame(t).stops < MaxStops
  /\ SetFrame(t, Entered([Frame(t) EXCEPT !.stops = @ + 1]))
  /\ UNCHANGED <<connection_pool, pools, closer, vInput, vResult>>

\* The consumer asks the exhausted stream again: the generator has
\* returned, so the consumer gets StopAsyncIteration once more and no
\* statement of astream_events runs.
StreamAgain(t) ==
  /\ Frame(t).pc = "exhausted"
  /\ Frame(t).stops < MaxStops
  /\ SetFrame(t, [Frame(t) EXCEPT !.stops = @ + 1])
  /\ UNCHANGED <<connection_pool, pools, closer, vInput, vResult>>

\* ---------------------------------------------------- handle_call_tool

\* `arguments` is a mapping; None is the mapping with no key.
NoArguments == [x \in {} |-> <<>>]

handle_call_tool(t, name, arguments) ==
  /\ Frame(t).pc = "idle"
  /\ LET f == [IdleFrame EXCEPT !.entry = "handle_call_tool",
                                !.name = name]
     IN  IF name = "mysql_query"
         THEN SetFrame(t, Entered([f EXCEPT
                !.tool = "mysql_tool",
                !.query = Get(arguments, "query", <<>>),
                !.database = Get(arguments, "database", None),
                !.limit = Get(arguments, "limit", DefaultLimit),
                !.fetch_metadata = Get(arguments, "fetch_metadata", TRUE)]))
         ELSE IF name = "mysql_schema"
         THEN LET database == Get(arguments, "database", None)
                  table == Get(arguments, "table", None)
              IN  SetFrame(t, Entered([f EXCEPT
                    !.tool = "schema_tool",
                    !.schema_database = database,
                    !.schema_table = table,
                    !.mode = SchemaMode(database, table),
                    !.query = SchemaQuery(database, table),
                    !.database = SchemaUse(database, table),
                    !.limit = DefaultLimit,
                    !.fetch_metadata = TRUE]))
         ELSE SetFrame(t, [f EXCEPT
                !.pc = "done",
                !.raised = [Exc("ValueError", "Unknown tool: {name}")
                              EXCEPT !.origin = "handle_call_tool",
                                     !.caught = "handle_call_tool"],
                !.reply = Dispatched(name,
                   [raised |-> Exc("ValueError", "Unknown tool: {name}")])])
  /\ UNCHANGED <<connection_pool, pools, closer, vInput, vResult>>

\* The caller has its reply (or has dropped the exhausted stream): the
\* coroutine is free for the next call.
Finish(t) ==
  /\ Frame(t).pc \in {"done", "exhausted"}
  /\ SetFrame(t, IdleFrame)
  /\ UNCHANGED <<connection_pool, pools, closer, vInput, vResult>>

\* ----------------------------------- _close_connection_pool, close

\* MySQLMCPServer.close closes mysql_tool, then the schema tool's MySQLTool.
CloseOrder == <<"mysql_tool", "schema_tool">>

\* _close_connection_pool up to its await: nothing without a pool;
\* otherwise pool.close(), which closes the free connections, and then
\* wait_closed() is awaited.
CloseBegin ==
  /\ closer.pc = "close"
  /\ LET x == CloseOrder[closer.at]
         p == connection_pool[x]
     IN  IF p = 0
         THEN /\ closer' = IF closer.at < Len(CloseOrder)
                           THEN [closer EXCEPT !.at = @ + 1]
                           ELSE [pc |-> "idle", at |-> 1, pool |-> 0]
              /\ UNCHANGED pools
         ELSE /\ pools' = [pools EXCEPT ![p].state =
                             IF @ = "open" THEN "closing" ELSE @]
              /\ closer' = [closer EXCEPT !.pc = "wait_closed", !.pool = p]
  /\ UNCHANGED <<connection_pool, task, vInput, vResult>>

CloseEnd_keeps_handle ==
  /\ closer.pc = "wait_closed"
  /\ \A c \in 1..Len(pools[closer.pool].conns) :
        ~pools[closer.pool].conns[c].busy
  /\ pools' = [pools EXCEPT ![closer.pool].state = "closed"]
  /\ closer' = IF closer.at < Len(CloseOrder)
               THEN [pc |-> "close", at |-> closer.at + 1, pool |-> 0]
               ELSE [pc |-> "idle", at |-> 1, pool |-> 0]
  /\ UNCHANGED <<connection_pool, task, vInput, vResult>>

\* wait_closed() returns once every connection is back: the handle is
\* cleared.
CloseEnd ==
  /\ closer.pc = "wait_closed"
  /\ \A c \in 1..Len(pools[closer.pool].conns) :
        ~pools[closer.pool].conns[c].busy
  /\ pools' = [pools EXCEPT ![closer.pool].state = "closed"]
  /\ connection_pool' =
       [connection_pool EXCEPT ![CloseOrder[closer.at]] = 0]
  /\ closer' = IF closer.at < Len(CloseOrder)
               THEN [pc |-> "close", at |-> closer.at + 1, pool |-> 0]
               ELSE [pc |-> "idle", at |-> 1, pool |-> 0]
  /\ UNCHANGED <<task, vInput, vResult>>

\* MySQLMCPServer.close is called.
ServerClose ==
  /\ closer.pc = "idle"
  /\ closer' = [pc |-> "close", at |-> 1, pool |-> 0]
  /\ UNCHANGED <<connection_pool, pools, task, vInput, vResult>>

\* ------------------------------------------------------ validate_query

NotValidated == [pending |-> TRUE]

\* MySQLQueryInput(query=vInput) is built: pydantic runs the validator.
Validate ==
  /\ vResult = NotValidated
  /\ vResult' = validate_query(vInput)
  /\ UNCHANGED <<connection_pool, pools, task, closer, vInput>>

\* ------------------------------------------------------ the server runs

SELECT_1 == <<"S","E","L","E","C","T"," ","1">>

DROP_TABLE_users == <<"D","R","O","P"," ","T","A","B","L","E"," ","u","s","e","r","s">>

Blank == <<" "," ">>

users == <<"u","s","e","r","s">>

missing_db == <<"n","o","d","b">>

ToolNames == {"mysql_query", "mysql_schema", "mysql_admin"}

\* The argument mappings the calls of the server run carry.
QueryArguments ==
  {NoArguments, [query |-> SELECT_1], [query |-> DROP_TABLE_users],
   [query |-> Blank],
   [query |-> SELECT_1, database |-> app_db, limit |-> 1,
    fetch_metadata |-> FALSE],
   [query |-> SELECT_1, database |-> missing_db]}

SchemaArguments ==
  {NoArguments, [database |-> app_db], [table |-> users],
   [database |-> app_db, table |-> users, include_data_types |-> FALSE]}

ArgumentsOf(name) ==
  IF name = "mysql_query" THEN QueryArguments
  ELSE IF name = "mysql_schema" THEN SchemaArguments
  ELSE {NoArguments, [query |-> SELECT_1]}

Init ==
  /\ connection_pool = [x \in Instances |-> 0]
  /\ pools = <<>>
  /\ task = [t \in Tasks |-> IdleFrame]
  /\ closer = [pc |-> "idle", at |-> 1, pool |-> 0]
  /\ vInput = <<>>
  /\ vResult = NotValidated

\* One step of _execute_query in a coroutine.
ExecuteStep(t) ==
  \/ CreatePoolOk(t)
  \/ CreatePoolFail(t)
  \/ Acquire(t)
  \/ AcquireFail(t)
  \/ Cursor(t)
  \/ CursorFail(t)
  \/ Use(t)
  \/ Execute(t)
  \/ Release(t)

\* The arguments of the calls each coroutine serves: the second one's
\* name a database, one the server does not have.
ConcurrentArguments(t) ==
  IF t = "t1" THEN [query |-> SELECT_1]
  ELSE [query |-> SELECT_1, database |-> missing_db]

\* Two coroutines serve mysql_query calls concurrently while
\* MySQLMCPServer.close may run.
Next ==
  \/ \E t \in Tasks :
       handle_call_tool(t, "mysql_query", ConcurrentArguments(t))
  \/ \E t \in Tasks : ExecuteStep(t)
  \/ \E t \in Tasks : Finish(t)
  \/ ServerClose
  \/ CloseBegin
  \/ CloseEnd

Spec == Init /\ [][Next]_vars

\* One coroutine serves calls of every tool name and argument mapping, one
\* after the other, while MySQLMCPServer.close may run.
NextCalls ==
  \/ \E name \in ToolNames : \E arguments \in ArgumentsOf(name) :
       handle_call_tool("t1", name, arguments)
  \/ ExecuteStep("t1")
  \/ Finish("t1")
  \/ ServerClose
  \/ CloseBegin
  \/ CloseEnd

SpecCalls == Init /\ [][NextCalls]_vars

\* Most row limit the streams and calls are given, besides the default (a
\* bound of the model).
MaxLimit == 2

Limits == 1..MaxLimit \cup {DefaultLimit}

\* Statements in several letter cases, with leading whitespace and with
\* different text after the first word.
StatementTexts ==
  { SELECT_1,
    <<"s","e","l","e","c","t"," ","1">>,
    <<" ","S","e","l","e","c","t","	","2">>,
    <<"S","E","L","E","C","T">>,
    <<"s","e","l","e","c","t","e","d"," ","1">>,
    <<"(","S","E","L","E","C","T"," ","1",")">>,
    <<"I","N","S","E","R","T"," ","x">>,
    <<"i","n","s","e","r","t"," ","y">>,
    <<"U","p","d","a","t","e"," ","x">>,
    <<"d","e","l","e","t","e"," ","x">>,
    <<"C","R","E","A","T","E"," ","t">>,
    <<"c","r","e","a","t","e","	","u">>,
    <<"a","l","t","e","r"," ","t">>,
    <<"D","r","o","p"," ","t">>,
    <<"S","H","O","W"," ","x">>,
    <<"s","h","o","w">>,
    <<"d","e","s","c","r","i","b","e"," ","t">>,
    Blank }

StreamTexts ==
  { SELECT_1,
    <<"s","e","l","e","c","t"," ","1">>,
    <<"I","N","S","E","R","T"," ","x">>,
    <<"C","R","E","A","T","E"," ","t">>,
    <<"S","H","O","W"," ","x">>,
    <<"(","S","E","L","E","C","T"," ","1",")">>,
    Blank }

\* One consumer iterates astream_events streams, one after the other.
NextStream ==
  \/ \E input \in StreamTexts : \E config \in {None, app_db, missing_db} :
       \E limit \in Limits : \E fetch_metadata \in BOOLEAN :
         astream_events("t1", input, config, limit, fetch_metadata)
  \/ ExecuteStep("t1")
  \/ StreamNext("t1")
  \/ StreamEnd("t1")
  \/ StreamAgain("t1")
  \/ Finish("t1")

SpecStream == Init /\ [][NextStream]_vars

\* Two mysql_query calls, the second made when the first has returned.
NextPair ==
  \/ \E query \in StatementTexts :
       handle_call_tool("t1", "mysql_query", [query |-> query])
  \/ /\ task["t1"].pc = "done"
     /\ \E query \in StatementTexts :
          handle_call_tool("t2", "mysql_query",
                           [query |-> query, database |-> app_db])
  \/ \E t \in Tasks : ExecuteStep(t)

SpecPair == Init /\ [][NextPair]_vars

\* validate_query alone, on every text of at most MaxWords words.
InitValidate ==
  /\ connection_pool = [x \in Instances |-> 0]
  /\ pools = <<>>
  /\ task = [t \in Tasks |-> IdleFrame]
  /\ closer = [pc |-> "idle", at |-> 1, pool |-> 0]
  /\ \/ vInput \in BlankTexts
     \/ \E b \in Bodies(MaxWords), pad \in Pads, case \in LetterCases :
          vInput = PaddedText(b, pad, case)
  /\ vResult = NotValidated

NextValidate == Validate

SpecValidate == InitValidate /\ [][NextValidate]_vars

\* ------------------------------------------------------------- claims

\* The text has a character that is not whitespace.
NonBlank(v) == \E i \in 1..Len(v) : ~IsSpace(v[i])

\* The pattern occurs in the text when letter case is ignored.
OccursIgnoringCase(v, pattern) ==
  \E i \in 0..(Len(v) - Len(pattern)) :
    \A j \in 1..Len(pattern) : LowerChar(v[i + j]) = pattern[j]

Denylisted(v) ==
  \E k \in 1..Len(dangerous_patterns) :
    OccursIgnoringCase(v, dangerous_patterns[k])

\* C6: validate_query returns unchanged every text that is not blank and
\* holds no denylisted pattern in any letter case; it rejects every text
\* that holds one, naming a pattern of the denylist that does occur in the
\* text; and it rejects blank text as empty.
C6_ValidateQuery ==
  vResult # NotValidated =>
    /\ (NonBlank(vInput) /\ ~Denylisted(vInput))
         => (vResult.ok /\ vResult.value = vInput)
    /\ Denylisted(vInput)
         => /\ ~vResult.ok
            /\ vResult.error =
                 "Query contains potentially dangerous pattern: "
            /\ \E k \in 1..Len(dangerous_patterns) :
                 vResult.pattern = dangerous_patterns[k]
            /\ OccursIgnoringCase(vInput, vResult.pattern)
    /\ ~NonBlank(vInput)
         => (~vResult.ok /\ vResult.error = "Query cannot be empty")

\* C6's case: a text with upper-case letters and whitespace around it was
\* rejected for a pattern.
C6_Witness ==
  /\ vResult # NotValidated
  /\ ~vResult.ok
  /\ vResult.pattern # <<>>
  /\ vInput # Lower(vInput)
  /\ vInput # Strip(vInput)

\* The first whitespace-delimited token of the text is `word` (given in
\* lower case), whatever the letter case of the text.
FirstTokenIs(text, word) ==
  \E i \in 1..Len(text) :
    /\ \A j \in 1..(i - 1) : IsSpace(text[j])
    /\ i + Len(word) - 1 <= Len(text)
    /\ \A j \in 1..Len(word) : LowerChar(text[i + j - 1]) = word[j]
    /\ i + Len(word) <= Len(text) => IsSpace(text[i + Len(word)])

select == <<"s","e","l","e","c","t">>

\* _execute_query returned a success record for a SELECT statement.
SelectSucceeded(f) ==
  /\ f.result # NoResult
  /\ f.result.success
  /\ FirstTokenIs(f.query, select)

\* C5: a successful SELECT with row limit L over a statement that produced
\* M rows has the first L rows, row_count = L, limited = TRUE when M > L,
\* and all M rows, row_count = M, limited = FALSE when M < L; row_count is
\* always the number of rows of the record and never more than L.
C5_RowLimit ==
  \A t \in Tasks :
    LET f == task[t]
        M == Len(f.answer.rows)
        L == f.limit
    IN  SelectSucceeded(f) =>
          /\ f.result.row_count = Len(f.result.rows)
          /\ f.result.row_count <= L
          /\ \A i \in 1..Len(f.result.rows) :
               f.result.rows[i] = f.answer.rows[i]
          /\ M > L => (f.result.row_count = L /\ f.result.limited)
          /\ M < L => (f.result.row_count = M /\ ~f.result.limited)

\* C5's case: a SELECT that produced more rows than its limit returned.
C5_Witness ==
  \E t \in Tasks :
    /\ SelectSucceeded(task[t])
    /\ Len(task[t].answer.rows) > task[t].limit
    /\ task[t].limit > 1
    /\ task[t].result.limited

\* The events a stream is to yield for a success record with these rows.
ExpectedEvent(rows, k) ==
  IF k = 1 THEN "metadata"
  ELSE IF k = Len(rows) + 2 THEN "summary"
  ELSE "row"

\* C3: for a successful SELECT that returned N rows, astream_events yields
\* one metadata event, then the N row events with indices 0..N-1 carrying
\* the rows in result order, then one summary event, and nothing more.
C3_EventOrder ==
  \A t \in Tasks :
    LET f == task[t]
        rows == f.result.rows
        N == Len(rows)
    IN  (f.entry = "astream_events" /\ SelectSucceeded(f)
         /\ f.pc \in {"streaming", "stream_last", "exhausted"}) =>
          /\ Len(f.events) <= N + 2
          /\ f.pc # "streaming" => Len(f.events) = N + 2
          /\ \A k \in 1..Len(f.events) :
               /\ f.events[k].event = ExpectedEvent(rows, k)
               /\ f.events[k].event = "row" =>
                    /\ f.events[k].index = k - 2
                    /\ f.events[k].row = rows[k - 1]

\* C3's case: the stream of a SELECT that returned two rows or more was
\* read to its end.
C3_Witness ==
  \E t \in Tasks :
    /\ task[t].entry = "astream_events"
    /\ SelectSucceeded(task[t])
    /\ task[t].pc = "exhausted"
    /\ Len(task[t].result.rows) >= 2

\* The shape of a success record, read off the fields it carries.
Shape(result) ==
  IF {"rows", "row_count", "limited"} \subseteq DOMAIN result /\
     DOMAIN result \cap {"affected_rows", "ddl_executed"} = {}
  THEN "read"
  ELSE IF "affected_rows" \in DOMAIN result /\
          DOMAIN result \cap {"rows", "row_count", "ddl_executed"} = {}
  THEN "mutation"
  ELSE IF {"ddl_executed", "message"} \subseteq DOMAIN result /\
          DOMAIN result \cap {"rows", "row_count", "affected_rows"} = {}
  THEN "definition"
  ELSE IF {"rows", "row_count"} \subseteq DOMAIN result /\
          DOMAIN result \cap {"limited", "affected_rows", "ddl_executed"} = {}
  THEN "other"
  ELSE "none"

MutationWords == {<<"i","n","s","e","r","t">>, <<"u","p","d","a","t","e">>, <<"d","e","l","e","t","e">>}

DefinitionWords == {<<"c","r","e","a","t","e">>, <<"a","l","t","e","r">>, <<"d","r","o","p">>}

\* The shape the first token of the statement calls for.
ShapeFor(query) ==
  IF FirstTokenIs(query, select) THEN "read"
  ELSE IF \E w \in MutationWords : FirstTokenIs(query, w) THEN "mutation"
  ELSE IF \E w \in DefinitionWords : FirstTokenIs(query, w) THEN "definition"
  ELSE "other"

\* The two texts have the same first whitespace-delimited token when
\* letter case is ignored.
SameFirstToken(q1, q2) ==
  \E i1 \in 1..Len(q1) : \E i2 \in 1..Len(q2) : \E n \in 1..Len(q1) :
    /\ \A j \in 1..(i1 - 1) : IsSpace(q1[j])
    /\ \A j \in 1..(i2 - 1) : IsSpace(q2[j])
    /\ i1 + n - 1 <= Len(q1)
    /\ i2 + n - 1 <= Len(q2)
    /\ \A j \in 0..(n - 1) :
         /\ ~IsSpace(q1[i1 + j])
         /\ LowerChar(q1[i1 + j]) = LowerChar(q2[i2 + j])
    /\ i1 + n <= Len(q1) => IsSpace(q1[i1 + n])
    /\ i2 + n <= Len(q2) => IsSpace(q2[i2 + n])

Succeeded(f) == f.result # NoResult /\ f.result.success

\* C10: the statement type of a successfully executed query follows from
\* its first whitespace-delimited token alone, letter case ignored: SELECT
\* gives the read shape, INSERT/UPDATE/DELETE the mutation shape,
\* CREATE/ALTER/DROP the definition shape, any other token the other shape;
\* two queries with the same first token up to letter case get the same
\* type tag and the same shape.
C10_StatementType ==
  /\ \A t \in Tasks :
       Succeeded(task[t]) => Shape(task[t].result) = ShapeFor(task[t].query)
  /\ \A t, u \in Tasks :
       (Succeeded(task[t]) /\ Succeeded(task[u]) /\
        SameFirstToken(task[t].query, task[u].query)) =>
         /\ task[t].result.query_type = task[u].result.query_type
         /\ Shape(task[t].result) = Shape(task[u].result)

\* C10's case: two calls succeeded whose statements differ in letter case
\* and in the text after the same first token.
C10_Witness ==
  /\ Succeeded(task["t1"])
  /\ Succeeded(task["t2"])
  /\ SameFirstToken(task["t1"].query, task["t2"].query)
  /\ Lower(task["t1"].query) # Lower(task["t2"].query)
  /\ Split(task["t1"].query)[1] # Split(task["t2"].query)[1]
  /\ Shape(task["t1"].result) = "mutation"

\* The statements of _execute_query a coroutine can be at.
InExecuteQuery ==
  {"create_pool", "acquire", "cursor", "use", "execute", "release"}

\* C1 (as claimed): a mysql_query call dispatched through handle_call_tool
\* whose query text is blank or holds a denylisted pattern is rejected
\* before any database contact: it creates no pool, borrows no connection
\* and executes no statement.
C1_RejectedBeforeContact ==
  \A t \in Tasks :
    LET f == task[t]
    IN  (f.entry = "handle_call_tool" /\ f.name = "mysql_query" /\
         (~NonBlank(f.query) \/ Denylisted(f.query))) =>
          /\ f.pc \notin InExecuteQuery
          /\ f.pool = 0
          /\ f.answer = NoAnswer
          /\ f.result = NoResult

\* C2 (as claimed): whatever the interleaving of concurrent _execute_query
\* calls on one MySQLTool, at most one live pool exists for the instance,
\* and the calls in flight all use that pool.
C2_OnePoolPerInstance ==
  /\ \A x \in Instances : Cardinality(LivePools(x)) <= 1
  /\ \A t, u \in Tasks :
       (task[t].tool = task[u].tool /\ task[t].pool # 0 /\
        task[u].pool # 0 /\ task[t].pc \in InExecuteQuery /\
        task[u].pc \in InExecuteQuery) => task[t].pool = task[u].pool

\* C4 (as claimed): the only exception that leaves _execute_query is a
\* failure to create the pool; every other failure is a failure record.
C4_OnlyPoolCreationRaises ==
  \A t \in Tasks :
    (task[t].raised # NoExc /\ task[t].raised.origin # "handle_call_tool")
      => task[t].raised.origin = "create_pool"

\* C4 (amended): once the connection and the cursor are borrowed,
\* _execute_query raises nothing: a failure of the USE switch, of the
\* statement, of the fetch or of the shaping of the record gives a record
\* with success = FALSE, the error message and the error type; what leaves
\* _execute_query as an exception is a failure to create the pool or to
\* borrow the connection or the cursor.
C4_ExecutionFailuresAreRecords ==
  \A t \in Tasks :
    LET f == task[t]
    IN  /\ f.raised # NoExc =>
             /\ f.raised.origin \in
                  {"create_pool", "acquire", "cursor", "handle_call_tool"}
             /\ f.result = NoResult
             /\ f.answer = NoAnswer
        /\ f.result # NoResult =>
             /\ f.raised = NoExc
             /\ f.result.success \in BOOLEAN
             /\ ~f.result.success =>
                  /\ {"error", "error_type"} \subseteq DOMAIN f.result
                  /\ f.result.error # ""
                  /\ f.result.error_type # ""
             /\ f.answer.execute = "error" => ~f.result.success
             /\ (f.answer.fetch = "error" /\
                 ShapeFor(f.query) \in {"read", "other"})
                  => ~f.result.success
             /\ (Truthy(f.database) /\ f.database \notin ServerDatabases)
                  => (~f.result.success /\ f.answer = NoAnswer)

\* C4's case: a statement the server refused came back as a failure record.
C4_Witness ==
  \E t \in Tasks :
    /\ task[t].pc = "done"
    /\ task[t].answer.execute = "error"
    /\ task[t].result # NoResult
    /\ ~task[t].result.success
    /\ task[t].result.error_type = "ProgrammingError"

\* A mysql_query call whose pool creation failed has returned.
PoolCreationFailed(f) ==
  /\ f.entry = "handle_call_tool"
  /\ f.name = "mysql_query"
  /\ f.raised.origin = "create_pool"

\* C7 (as claimed): when pool creation fails during a mysql_query call, the
\* exception propagates out of MySQLTool._arun to its caller,
\* handle_call_tool, and is rendered there as the error text block.
C7_PropagatesOutOfArun ==
  \A t \in Tasks :
    PoolCreationFailed(task[t]) =>
      /\ task[t].raised.caught = "handle_call_tool"
      /\ task[t].reply =
           <<TextContent(DispatchErrorText("mysql_query",
                                           task[t].raised.message))>>

\* C7 (amended): when pool creation fails during a mysql_query call, the
\* exception leaves _execute_query and is caught by MySQLTool._arun, which
\* returns the tool-level error text "MySQL Tool Error: <message> Query:
\* <query>"; handle_call_tool returns that text as its one text block. No
\* record was made, no success text is returned and no pool handle is
\* cached.
C7_ArunRendersPoolFailure ==
  \A t \in Tasks :
    LET f == task[t]
    IN  PoolCreationFailed(f) =>
          /\ f.pc = "done"
          /\ f.raised.caught = "MySQLTool._arun"
          /\ f.reply =
               <<[type |-> "text",
                  text |-> [fmt |-> "MySQL Tool Error: {error} Query: {query}",
                            error |-> f.raised.message,
                            query |-> f.query]]>>
          /\ f.result = NoResult
          /\ f.pool = 0
          /\ connection_pool["mysql_tool"] = 0

\* C7's case: a mysql_query call returned after create_pool raised.
C7_Witness ==
  \E t \in Tasks :
    /\ PoolCreationFailed(task[t])
    /\ task[t].pc = "done"
    /\ NonBlank(task[t].query)

\* The coroutine's call of handle_call_tool has returned.
CallReturned(f) == f.entry = "handle_call_tool" /\ f.pc = "done"

\* C8: handle_call_tool lets no exception out: for every tool name and
\* argument mapping a call that has ended has returned exactly one text
\* block; an exception that reached its except clause gave the text
\* "Error executing <tool>: <message>"; and the step that ends in this
\* error leaves the pools and the cached handles as they were, so the
\* coroutine is free to serve the next call.
C8_DispatchBoundary ==
  /\ [](\A t \in Tasks :
          LET f == task[t]
          IN  /\ f.entry = "handle_call_tool" =>
                   f.pc \in InExecuteQuery \cup {"done"}
              /\ CallReturned(f) =>
                   /\ Len(f.reply) = 1
                   /\ f.reply[1].type = "text"
                   /\ "fmt" \in DOMAIN f.reply[1].text
                   /\ (f.raised.caught = "handle_call_tool" \/
                       f.name \notin {"mysql_query", "mysql_schema"}) =>
                        f.reply[1].text =
                          [fmt |-> "Error executing {name}: {error}",
                           tool |-> f.name,
                           error |-> f.raised.message]
                   /\ ENABLED Finish(t))
  /\ [][\A t \in Tasks :
          (task'[t].raised.caught = "handle_call_tool" /\
           task[t].raised.caught # "handle_call_tool") =>
            /\ connection_pool' = connection_pool
            /\ pools' = pools
            /\ CallReturned(task'[t])]_vars

\* C8's case: a call of an unknown tool returned the dispatch error text.
C8_Witness ==
  \E t \in Tasks :
    /\ CallReturned(task[t])
    /\ task[t].raised.caught = "handle_call_tool"
    /\ task[t].name = "mysql_admin"
    /\ connection_pool["mysql_tool"] # 0

\* C9: _close_connection_pool is idempotent. Without a pool it changes
\* nothing. With one, it closes that pool, which was open, waits until
\* every connection is back and the pool is closed, and clears the handle:
\* a closed pool is never cached, so a second close finds no pool and the
\* next _get_connection_pool creates a pool that did not exist before.
C9_CloseIdempotent ==
  /\ [](\A x \in Instances :
          connection_pool[x] # 0 =>
            pools[connection_pool[x]].state # "closed")
  /\ [][/\ (closer.pc = "close" /\ closer' # closer /\
            connection_pool[CloseOrder[closer.at]] = 0) =>
              (pools' = pools /\ connection_pool' = connection_pool /\
               closer'.pc # "wait_closed")
        /\ (closer.pc = "close" /\ closer' # closer /\
            connection_pool[CloseOrder[closer.at]] # 0) =>
              LET p == connection_pool[CloseOrder[closer.at]]
              IN  /\ pools[p].state = "open"
                  /\ pools'[p].state = "closing"
                  /\ closer'.pc = "wait_closed"
                  /\ closer'.pool = p
        /\ (closer.pc = "wait_closed" /\ closer' # closer) =>
              /\ \A c \in 1..Len(pools[closer.pool].conns) :
                    ~pools[closer.pool].conns[c].busy
              /\ pools'[closer.pool].state = "closed"
              /\ connection_pool'[CloseOrder[closer.at]] = 0
        /\ \A t \in Tasks :
             (task[t].pc = "create_pool" /\ task'[t].pc = "acquire") =>
               /\ task'[t].pool \notin 1..Len(pools)
               /\ pools'[task'[t].pool].state = "open"
               /\ connection_pool'[task[t].tool] = task'[t].pool]_vars

\* C9's case: a pool was closed and its handle cleared, and a later call
\* has created and cached another pool for the same instance.
C9_Witness ==
  \E x \in Instances : \E p \in 1..Len(pools) :
    /\ pools[p].owner = x
    /\ pools[p].state = "closed"
    /\ connection_pool[x] > p
    /\ pools[connection_pool[x]].state = "open"
    /\ closer.pc = "idle"

\* A mysql_schema call as the claims see it: the statement its inputs ask
\* for, and the error line of its mode.
GivenText(x) == x # <<>>

SchemaStatementFor(database, table) ==
  IF GivenText(table)
  THEN IF GivenText(database)
       THEN <<"D","E","S","C","R","I","B","E"," ">> \o database \o <<".">>
              \o table
       ELSE <<"D","E","S","C","R","I","B","E"," ">> \o table
  ELSE IF GivenText(database)
  THEN <<"S","H","O","W"," ","T","A","B","L","E","S"," ","F","R","O","M"," ">>
         \o database
  ELSE <<"S","H","O","W"," ","D","A","T","A","B","A","S","E","S">>

SchemaErrorLineFor(database, table) ==
  IF GivenText(table) THEN "Error describing table: {error}"
  ELSE IF GivenText(database) THEN "Error listing tables: {error}"
  ELSE "Error listing databases: {error}"

\* C11: MySQLSchemaTool._arun issues the one statement of the mode its
\* inputs select (SHOW DATABASES, SHOW TABLES FROM <database>, DESCRIBE
\* <database.>table) and hands it to _execute_query once; a failure record
\* is reported as the error line of that mode with the record's error; a
\* successful DESCRIBE without rows is reported as "has no columns or
\* doesn't exist".
C11_SchemaModes ==
  /\ [](\A t \in Tasks :
          LET f == task[t]
          IN  f.name = "mysql_schema" =>
                /\ f.tool = "schema_tool"
                /\ f.query = SchemaStatementFor(f.schema_database,
                                                f.schema_table)
                /\ (f.pc = "done" /\ f.result # NoResult /\
                    ~f.result.success) =>
                      f.reply[1].text =
                        [fmt |-> SchemaErrorLineFor(f.schema_database,
                                                    f.schema_table),
                         error |-> f.result.error]
                /\ (f.pc = "done" /\ f.result # NoResult /\
                    f.result.success /\ GivenText(f.schema_table) /\
                    f.result.rows = <<>>) =>
                      f.reply[1].text =
                        [fmt |->
                           "Table '{table}' has no columns or doesn't exist",
                         table |-> f.schema_table])
  /\ [][\A t \in Tasks :
          (task[t].name = "mysql_schema" /\ task[t].pc # "done") =>
            /\ task'[t].query = task[t].query
            /\ (task[t].pc = "release" /\ task'[t] # task[t]) =>
                 task'[t].pc = "done"
            /\ task[t].result # NoResult => task'[t].result = task[t].result
       ]_vars

\* C11's case: a DESCRIBE of a table in a database came back without rows
\* and was reported as a table without columns.
C11_Witness ==
  \E t \in Tasks :
    /\ task[t].name = "mysql_schema"
    /\ task[t].pc = "done"
    /\ GivenText(task[t].schema_database)
    /\ GivenText(task[t].schema_table)
    /\ task[t].result # NoResult
    /\ task[t].result.success
    /\ task[t].result.rows = <<>>
    /\ task[t].reply[1].text.fmt =
         "Table '{table}' has no columns or doesn't exist"

\* The statements of _execute_query at which a call holds a connection.
HoldsConnection == {"cursor", "use", "execute", "release"}

\* The calls that hold connection c of pool p.
Holders(p, c) ==
  {t \in Tasks : task[t].pool = p /\ task[t].conn = c /\
                 task[t].pc \in HoldsConnection}

\* C12: a call of _execute_query holds one connection of its pool from
\* pool.acquire() until it returns its record or raises, and none before
\* or after; a connection is borrowed exactly while one call holds it, so
\* when no call is inside _execute_query no connection is borrowed.
C12_ScopedAcquisition ==
  /\ \A t \in Tasks :
       IF task[t].pc \in HoldsConnection
       THEN /\ task[t].pool \in 1..Len(pools)
            /\ task[t].conn \in 1..Len(pools[task[t].pool].conns)
       ELSE task[t].conn = 0
  /\ \A p \in 1..Len(pools) : \A c \in 1..Len(pools[p].conns) :
       IF pools[p].conns[c].busy
       THEN Cardinality(Holders(p, c)) = 1
       ELSE Holders(p, c) = {}
  /\ (\A t \in Tasks : task[t].pc \notin InExecuteQuery) =>
       \A p \in 1..Len(pools) : \A c \in 1..Len(pools[p].conns) :
         ~pools[p].conns[c].busy

\* C12's case: two concurrent calls each borrowed a connection of the same
\* pool; one returned a success record, the other a failure record, and
\* both connections are back.
C12_Witness ==
  /\ task["t1"].pc = "done"
  /\ task["t2"].pc = "done"
  /\ task["t1"].result # NoResult
  /\ task["t2"].result # NoResult
  /\ task["t1"].result.success
  /\ ~task["t2"].result.success
  /\ \E p \in 1..Len(pools) :
       /\ Len(pools[p].conns) >= 2
       /\ \A c \in 1..Len(pools[p].conns) : ~pools[p].conns[c].busy

\* C13 (as claimed): a call leaves the active database of the connection
\* it borrowed as it found it, so a call made without a target database
\* runs its statement on a connection whose active database is the one the
\* connection was made with, whatever earlier calls supplied.
C13_NoStateAcrossCalls ==
  /\ \A p \in 1..Len(pools) : \A c \in 1..Len(pools[p].conns) :
       ~pools[p].conns[c].busy => pools[p].conns[c].database = None
  /\ \A t \in Tasks :
       (task[t].pc \in {"execute", "release"} /\ ~Truthy(task[t].database))
         => pools[task[t].pool].conns[task[t].conn].database = None

\* The coroutine iterates a stream of astream_events.
IsStream(f) == f.entry = "astream_events"

\* The positions of a stream that has yielded its first event.
Yielding == {"streaming", "stream_last", "exhausted"}

EventKinds(events) == [i \in 1..Len(events) |-> events[i].event]

\* C14: when _execute_query raises inside astream_events the stream is the
\* one error event with the exception's message and type, with no other
\* event before or after it; a stream whose _execute_query returned a
\* record holds no error event.
C14_ErrorEventAlone ==
  \A t \in Tasks :
    LET f == task[t]
    IN  IsStream(f) =>
          /\ f.raised # NoExc =>
               /\ f.pc \in {"stream_last", "exhausted"}
               /\ f.result = NoResult
               /\ f.events = <<[event |-> "error",
                                error |-> f.raised.message,
                                error_type |-> f.raised.type]>>
          /\ f.raised = NoExc =>
               \A i \in 1..Len(f.events) : f.events[i].event # "error"

\* C14's case: pool.acquire() raised and the stream ended after its error
\* event.
C14_Witness ==
  \E t \in Tasks :
    /\ IsStream(task[t])
    /\ task[t].pc = "exhausted"
    /\ task[t].raised.origin = "acquire"
    /\ task[t].raised.type = "OperationalError"
    /\ Len(task[t].events) = 1

\* C15: a stream whose record is not a successful SELECT (a successful
\* mutation, definition or other statement, with rows or not, or a
\* failure record) yields one metadata event, then one summary event, and
\* no row event.
C15_RowsOnlyForSelect ==
  \A t \in Tasks :
    LET f == task[t]
    IN  (IsStream(f) /\ f.pc \in Yielding /\ f.result # NoResult /\
         ~(f.result.success /\ ShapeFor(f.query) = "read")) =>
          IF f.pc = "streaming"
          THEN EventKinds(f.events) = <<"metadata">>
          ELSE EventKinds(f.events) = <<"metadata", "summary">>

\* C15's case: a SHOW statement succeeded with rows in its record and its
\* stream ended after metadata and summary.
C15_Witness ==
  \E t \in Tasks :
    /\ IsStream(task[t])
    /\ task[t].pc = "exhausted"
    /\ task[t].result # NoResult
    /\ task[t].result.success
    /\ ShapeFor(task[t].query) = "other"
    /\ Len(task[t].result.rows) >= 2
    /\ Len(task[t].events) = 2

\* C16: a stream enters _execute_query once, before its first event: once
\* it has yielded an event it never is inside _execute_query again, its
\* statement is sent to the server at most once, and asking the exhausted
\* stream again yields no event, sends no statement and touches no pool.
C16_ExecutesOnce ==
  /\ [](\A t \in Tasks :
          (IsStream(task[t]) /\ task[t].events # <<>>) =>
            /\ task[t].pc \in Yielding
            /\ task[t].raised = NoExc => task[t].result # NoResult)
  /\ [][\A t \in Tasks :
          LET f == task[t]
              g == task'[t]
          IN  (IsStream(f) /\ g # f) =>
                /\ g.answer # f.answer =>
                     (g = IdleFrame \/
                      (f.answer = NoAnswer /\ f.events = <<>>))
                /\ f.pc \in Yielding =>
                     \/ g = IdleFrame
                     \/ /\ g.pc \in Yielding
                        /\ g.result = f.result
                        /\ pools' = pools
                        /\ connection_pool' = connection_pool
                /\ f.pc = "exhausted" =>
                     \/ g = IdleFrame
                     \/ g = [f EXCEPT !.stops = @ + 1]]_vars

\* C16's case: a stream whose statement was executed was consumed to the
\* end and asked again.
C16_Witness ==
  \E t \in Tasks :
    /\ IsStream(task[t])
    /\ task[t].pc = "exhausted"
    /\ task[t].stops = 2
    /\ task[t].answer.execute = "ok"
    /\ Len(task[t].events) >= 3

\* The fields every record carries, and those of each statement type.
CommonFields == {"query", "success", "timestamp"}

TypeFields(shape) ==
  IF shape = "read" THEN {"rows", "row_count", "limited"}
  ELSE IF shape = "mutation" THEN {"affected_rows", "last_insert_id"}
  ELSE IF shape = "definition" THEN {"ddl_executed", "message"}
  ELSE {"rows", "row_count"}

\* C17: a record returned by _execute_query is success-shaped or
\* failure-shaped, never both or neither. With success = TRUE it carries
\* query_type and the fields of exactly one statement type (with columns
\* for read and other when metadata was fetched), and neither error nor
\* error_type; with success = FALSE it carries error and error_type and
\* neither query_type nor any field of a statement type.
C17_ExactlyOneShape ==
  \A t \in Tasks :
    task[t].result # NoResult =>
      LET r == task[t].result
          fields == DOMAIN r
      IN  /\ CommonFields \subseteq fields
          /\ r.success \in BOOLEAN
          /\ r.success =>
               /\ "query_type" \in fields
               /\ fields \cap {"error", "error_type"} = {}
               /\ \E shape \in {"read", "mutation", "definition", "other"} :
                    \/ fields = CommonFields \cup {"query_type"} \cup
                                  TypeFields(shape)
                    \/ /\ shape \in {"read", "other"}
                       /\ fields = CommonFields \cup {"query_type"} \cup
                                     TypeFields(shape) \cup {"columns"}
          /\ ~r.success =>
               fields = CommonFields \cup {"error", "error_type"}

\* C17's case: one call returned a mutation record, and another a failure
\* record made after the fetch of a SELECT raised, when the success fields
\* had been set.
C17_Witness ==
  /\ task["t1"].pc = "done"
  /\ task["t2"].pc = "done"
  /\ task["t1"].result # NoResult
  /\ task["t2"].result # NoResult
  /\ task["t1"].result.success
  /\ "affected_rows" \in DOMAIN task["t1"].result
  /\ ~task["t2"].result.success
  /\ task["t2"].answer.execute = "ok"
  /\ task["t2"].answer.fetch = "error"

=============================================================================
